---- MODULE Spec2Model ----
(***************************************************************************)
(* jssc_Common.h: getNextTimeout, the computation of the next select()     *)
(* timeout from an absolute deadline (microseconds, 0 = do not block,      *)
(* negative = no deadline) and a poll period (milliseconds, <= 0 = none).  *)
(*                                                                         *)
(* C `long` is modelled as a two's-complement word of LongBits bits; every *)
(* subtraction and multiplication of the source is reduced with Wrap.  The *)
(* word is narrower than the 64 bits of an LP64 build so that the values   *)
(* at which the arithmetic wraps can be enumerated; the decimal constants  *)
(* 1000 and 1000000 of the source are kept as they are.                    *)
(***************************************************************************)
EXTENDS Integers, FiniteSets, Sequences, TLC

VARIABLES time, timeoutDeadline, pollPeriodMillis, nanoTime,
          pc, ret, wrote, clockRead, timeBefore,
          interrupted, sinceSet, waitLeft, dataReady, exitReason

vars == <<time, timeoutDeadline, pollPeriodMillis, nanoTime,
          pc, ret, wrote, clockRead, timeBefore,
          interrupted, sinceSet, waitLeft, dataReady, exitReason>>

callVars == <<time, timeoutDeadline, pollPeriodMillis, nanoTime,
              pc, ret, wrote, clockRead, timeBefore>>

loopVars == <<interrupted, sinceSet, waitLeft, dataReady, exitReason>>

----------------------------------------------------------------------------
(* The machine word                                                         *)

LongBits == 21

Modulus == 2 ^ LongBits

MaxLong == 2 ^ (LongBits - 1) - 1

MinLong == 0 - 2 ^ (LongBits - 1)

\* the value a long holds after an operation whose exact result is x
Wrap(x) ==
    LET m == x % Modulus
    IN  IF m > MaxLong THEN m - Modulus ELSE m

\* C integer division: the quotient is truncated toward zero
TruncDiv(a, b) == IF a >= 0 THEN a \div b ELSE 0 - ((0 - a) \div b)

\* C remainder: a == (a/b)*b + a%b, so it has the sign of a
TruncRem(a, b) == a - b * TruncDiv(a, b)

\* a pointer to struct timeval: the empty sequence is the null pointer, <<tv>>
\* points to a struct holding tv
NULL == << >>

----------------------------------------------------------------------------
(* getTimePreciseMicros: System.nanoTime() / 1000                           *)

getTimePreciseMicros(nanos) == TruncDiv(nanos, 1000)

----------------------------------------------------------------------------
(* getNextTimeout                                                           *)

\* time->tv_sec = pollPeriodMillis / 1000;
\* time->tv_usec = (pollPeriodMillis % 1000)*1000;
pollTimevalNoScale(p) ==
    [tv_sec |-> TruncDiv(p, 1000), tv_usec |-> TruncRem(p, 1000)]

pollTimeval(p) ==
    [tv_sec |-> TruncDiv(p, 1000), tv_usec |-> TruncRem(p, 1000) * 1000]

\* time->tv_sec = timeUntilTimeout / 1000000;
\* time->tv_usec = timeUntilTimeout % 1000000;
untilTimeval(t) ==
    [tv_sec |-> TruncDiv(t, 1000000), tv_usec |-> TruncRem(t, 1000000)]

\* long timeUntilTimeout = timeoutDeadline - currentTime;
timeUntilSwapped(deadline, currentTime) == Wrap(currentTime - deadline)

timeUntil(deadline, currentTime) == Wrap(deadline - currentTime)

\* both fields of *time stored, return 0
Filled(tv) == [ret |-> 0, time |-> <<tv>>, wrote |-> {"tv_sec", "tv_usec"}]

\* *time not touched, return 1
Forever(tv) == [ret |-> 1, time |-> tv, wrote |-> {}]

\* if (timeoutDeadline == 0) { ... return 0; }
zeroBranchSecOnly(tv) ==
    [ret |-> 0, time |-> <<[tv[1] EXCEPT !.tv_sec = 0]>>, wrote |-> {"tv_sec"}]

zeroBranch(tv) == Filled([tv_sec |-> 0, tv_usec |-> 0])

\* if (timeoutDeadline > 0) { ... return 0; }
deadlineBranchNoClamp(deadline, poll, currentTime) ==
    LET timeUntilTimeout == timeUntil(deadline, currentTime)
    IN  IF poll > 0
        THEN LET pollPeriodMicros == Wrap(poll * 1000)
             IN  IF pollPeriodMicros < timeUntilTimeout
                 THEN Filled(pollTimeval(poll))
                 ELSE Filled(untilTimeval(timeUntilTimeout))
        ELSE Filled(untilTimeval(timeUntilTimeout))

deadlineBranchNoPoll(deadline, poll, currentTime) ==
    LET timeUntilTimeout == timeUntil(deadline, currentTime)
    IN  IF timeUntilTimeout <= 0
        THEN Filled([tv_sec |-> 0, tv_usec |-> 0])
        ELSE Filled(untilTimeval(timeUntilTimeout))

deadlineBranch(deadline, poll, currentTime) ==
    LET timeUntilTimeout == timeUntil(deadline, currentTime)
    IN  IF timeUntilTimeout <= 0
        THEN Filled([tv_sec |-> 0, tv_usec |-> 0])
        ELSE IF poll > 0
             THEN LET pollPeriodMicros == Wrap(poll * 1000)
                  IN  IF pollPeriodMicros < timeUntilTimeout
                      THEN Filled(pollTimeval(poll))
                      ELSE Filled(untilTimeval(timeUntilTimeout))
             ELSE Filled(untilTimeval(timeUntilTimeout))

\* if (timeoutDeadline < 0) { ... }
foreverBranchZeroPoll(tv, poll) ==
    IF poll >= 0 THEN Filled(pollTimeval(poll)) ELSE Forever(tv)

foreverBranchAlways(tv, poll) == Forever(tv)

foreverBranch(tv, poll) ==
    IF poll > 0 THEN Filled(pollTimeval(poll)) ELSE Forever(tv)

\* The whole function.  tv is the pointer `time`, nanos the value
\* System.nanoTime() has during the call.  The
\* result carries the return value, the struct after the call, the fields
\* stored and whether the clock was sampled.
getNextTimeout(tv, deadline, poll, nanos) ==
    IF tv = NULL
    THEN Forever(tv) @@ [clockRead |-> FALSE]
    ELSE IF deadline = 0
    THEN zeroBranch(tv) @@ [clockRead |-> FALSE]
    ELSE IF deadline > 0
    THEN deadlineBranch(deadline, poll, getTimePreciseMicros(nanos))
            @@ [clockRead |-> TRUE]
    ELSE IF deadline < 0
    THEN foreverBranch(tv, poll) @@ [clockRead |-> FALSE]
    ELSE Forever(tv) @@ [clockRead |-> FALSE]

----------------------------------------------------------------------------
(* Arguments of the calls                                                   *)

\* smallest poll period whose product with 1000 exceeds MaxLong
PollWrapNeg == (MaxLong \div 1000) + 1

\* smallest poll period whose product with 1000 exceeds the modulus, so
\* that the wrapped product is a small positive number
PollWrapSmall == (Modulus \div 1000) + 1

Garbage == { <<[tv_sec |-> 0 - 7, tv_usec |-> 2000000]>>,
             <<[tv_sec |-> 3, tv_usec |-> 0 - 1]>> }

Deadlines == {MinLong, 0 - 1, 0, 1, 500, 1000, 1500, MaxLong}

Polls == {MinLong, 0 - 1, 0, 1, 2, 1500, PollWrapNeg, PollWrapSmall, MaxLong}

NanoTimes == {MinLong, 0 - 1000000, 0 - 999, 0, 999, 500000, 1000000, MaxLong}

----------------------------------------------------------------------------
(* Calls of getNextTimeout on arbitrary arguments                           *)

Init ==
    /\ time \in {NULL} \cup Garbage
    /\ timeoutDeadline \in Deadlines
    /\ pollPeriodMillis \in Polls
    /\ nanoTime \in NanoTimes
    /\ pc = "ready"
    /\ ret = 0 - 1
    /\ wrote = {}
    /\ clockRead = FALSE
    /\ timeBefore = time
    /\ interrupted = FALSE
    /\ sinceSet = 0
    /\ waitLeft = 0
    /\ dataReady = FALSE
    /\ exitReason = "none"

Call ==
    /\ pc = "ready"
    /\ LET r == getNextTimeout(time, timeoutDeadline, pollPeriodMillis, nanoTime)
       IN  /\ time' = r.time
           /\ ret' = r.ret
           /\ wrote' = r.wrote
           /\ clockRead' = r.clockRead
    /\ timeBefore' = time
    /\ pc' = "returned"
    /\ UNCHANGED <<timeoutDeadline, pollPeriodMillis, nanoTime>>
    /\ UNCHANGED loopVars

\* the caller prepares the next call on the same struct, later on the clock
Again ==
    /\ pc = "returned"
    /\ timeoutDeadline' \in Deadlines
    /\ pollPeriodMillis' \in Polls
    /\ nanoTime' \in {n \in NanoTimes : n >= nanoTime}
    /\ pc' = "ready"
    /\ ret' = 0 - 1
    /\ wrote' = {}
    /\ clockRead' = FALSE
    /\ timeBefore' = time
    /\ UNCHANGED time
    /\ UNCHANGED loopVars

Next == Call \/ Again

Spec == Init /\ [][Next]_vars

----------------------------------------------------------------------------
(* Properties of a call                                                     *)

Returned == pc = "returned"

\* the clock reading the call obtains
Now == getTimePreciseMicros(nanoTime)

\* the microseconds a filled struct timeval stands for
Duration(tv) == tv.tv_sec * 1000000 + tv.tv_usec

Min(a, b) == IF a < b THEN a ELSE b

BothFields == {"tv_sec", "tv_usec"}

\* C1, as claimed: with no deadline (timeoutDeadline < 0) and no poll period
\* (pollPeriodMillis <= 0) the call signals an error and never answers
\* "block forever" (return value 1).
C1_ErrorNotForever ==
    (Returned /\ timeBefore # NULL /\ timeoutDeadline < 0 /\ pollPeriodMillis <= 0)
        => ret # 1

\* C1, amended: with no deadline and no poll period the call returns 1
\* (block forever), signals nothing else and leaves *time alone.
C1_ForeverWithoutPoll ==
    (Returned /\ timeBefore # NULL /\ timeoutDeadline < 0 /\ pollPeriodMillis <= 0)
        => (ret = 1 /\ time = timeBefore /\ wrote = {})

C1_Witness ==
    /\ Returned /\ timeBefore # NULL
    /\ timeoutDeadline < 0 /\ pollPeriodMillis = 0 /\ ret = 1

\* C2, as claimed: every deadline value (zero and negative ones included)
\* that is <= the clock reading yields WaitFor(0), whatever the poll period.
C2_ExpiredAnyValue ==
    (Returned /\ timeBefore # NULL /\ timeoutDeadline <= Now)
        => (ret = 0 /\ time = <<[tv_sec |-> 0, tv_usec |-> 0]>>)

\* C2, amended: every deadline with 0 <= timeoutDeadline <= now yields
\* WaitFor(0) (return 0, tv_sec = 0, tv_usec = 0), whatever the poll period.
C2_ExpiredDeadlineZeroWait ==
    (Returned /\ timeBefore # NULL /\ timeoutDeadline >= 0 /\ timeoutDeadline <= Now)
        => (ret = 0 /\ time = <<[tv_sec |-> 0, tv_usec |-> 0]>>)

C2_Witness ==
    /\ Returned /\ timeBefore # NULL
    /\ timeoutDeadline > 0 /\ timeoutDeadline < Now /\ pollPeriodMillis > 0
    /\ ret = 0 /\ Duration(time[1]) = 0

\* C3: a deadline in the future yields WaitFor(deadline - now) without a poll
\* period and WaitFor(min(deadline - now, p*1000)) with a poll period p, and
\* the pair written stands for exactly that many microseconds.
C3_FutureDeadlineExact ==
    (Returned /\ timeBefore # NULL /\ timeoutDeadline > 0 /\ timeoutDeadline > Now)
        => /\ ret = 0
           /\ Duration(time[1]) =
                IF pollPeriodMillis > 0
                THEN Min(timeoutDeadline - Now, pollPeriodMillis * 1000)
                ELSE timeoutDeadline - Now

C5_NeverOversleeps ==
    (Returned /\ ret = 0)
        => /\ timeoutDeadline > 0 =>
                (Duration(time[1]) <= timeoutDeadline - Now \/ Duration(time[1]) = 0)
           /\ pollPeriodMillis > 0 =>
                Duration(time[1]) <= pollPeriodMillis * 1000

\* C6: whenever the call returns 0, tv_sec >= 0 and 0 <= tv_usec < 1000000;
\* a negative time-until-timeout is never stored.
C6_FieldsInRange ==
    (Returned /\ ret = 0)
        => /\ time[1].tv_sec >= 0
           /\ time[1].tv_usec >= 0
           /\ time[1].tv_usec < 1000000

C6_Witness ==
    /\ Returned /\ ret = 0 /\ timeoutDeadline > 0
    /\ Wrap(timeoutDeadline - Now) < 0
    /\ time[1] = [tv_sec |-> 0, tv_usec |-> 0]

----------------------------------------------------------------------------
(* The wait loop around getNextTimeout: one thread per port recomputes the  *)
(* timeout from a fresh clock reading, blocks in select(), and after each   *)
(* return looks at the interruption flag, then at the data, then at the     *)
(* deadline.  Time passes only inside select().                             *)

SleepStep == 250

LoopDeadlines == {0 - 1, 0, 1, 500, 1000, MaxLong \div 1000}

LoopPolls == {0 - 1, 0, 1, 2, PollWrapNeg, PollWrapSmall}

LoopStarts == {MinLong, 0 - 500, 0, 500000}

LoopInit ==
    /\ time \in Garbage
    /\ timeoutDeadline \in LoopDeadlines
    /\ pollPeriodMillis \in LoopPolls
    /\ nanoTime \in LoopStarts
    /\ pc = "compute"
    /\ ret = 0 - 1
    /\ wrote = {}
    /\ clockRead = FALSE
    /\ timeBefore = time
    /\ interrupted = FALSE
    /\ sinceSet = 0
    /\ waitLeft = 0
    /\ dataReady = FALSE
    /\ exitReason = "none"

\* getNextTimeout(env, &time, timeoutDeadline, pollPeriodMillis), then select
LoopCompute ==
    /\ pc = "compute"
    /\ LET r == getNextTimeout(time, timeoutDeadline, pollPeriodMillis, nanoTime)
       IN  /\ time' = r.time
           /\ ret' = r.ret
           /\ wrote' = r.wrote
           /\ clockRead' = r.clockRead
           /\ waitLeft' = IF r.ret = 0 THEN Duration(r.time[1]) ELSE 0
    /\ timeBefore' = time
    /\ pc' = "wait"
    /\ UNCHANGED <<timeoutDeadline, pollPeriodMillis, nanoTime>>
    /\ UNCHANGED <<interrupted, sinceSet, dataReady, exitReason>>

\* d microseconds pass inside select(); with a timeout, at most what is left
LoopSleep ==
    /\ pc = "wait"
    /\ \E d \in {SleepStep, waitLeft} :
        /\ d > 0
        /\ ret = 0 => d <= waitLeft
        /\ d <= (MaxLong - nanoTime) \div 1000
        /\ nanoTime' = nanoTime + d * 1000
        /\ waitLeft' = IF ret = 0 THEN waitLeft - d ELSE waitLeft
        /\ sinceSet' = IF interrupted THEN sinceSet + d ELSE sinceSet
    /\ UNCHANGED <<time, timeoutDeadline, pollPeriodMillis, pc, ret, wrote,
                   clockRead, timeBefore, interrupted, dataReady, exitReason>>

\* select() returns because the timeout has elapsed
LoopWakeTimeout ==
    /\ pc = "wait"
    /\ ret = 0
    /\ waitLeft = 0
    /\ pc' = "check"
    /\ UNCHANGED <<time, timeoutDeadline, pollPeriodMillis, nanoTime, ret, wrote,
                   clockRead, timeBefore>>
    /\ UNCHANGED loopVars

\* select() returns early: data became ready, or a signal arrived
LoopWakeEarly ==
    /\ pc = "wait"
    /\ ret = 1 \/ waitLeft > 0
    /\ dataReady' \in BOOLEAN
    /\ pc' = "check"
    /\ UNCHANGED <<time, timeoutDeadline, pollPeriodMillis, nanoTime, ret, wrote,
                   clockRead, timeBefore>>
    /\ UNCHANGED <<interrupted, sinceSet, waitLeft, exitReason>>

LoopExit(reason) ==
    /\ pc' = "exited"
    /\ exitReason' = reason
    /\ UNCHANGED <<time, timeoutDeadline, pollPeriodMillis, nanoTime, ret, wrote,
                   clockRead, timeBefore>>
    /\ UNCHANGED <<interrupted, sinceSet, waitLeft, dataReady>>

\* the flag is looked at first after every return of select()
LoopInterrupted ==
    /\ pc = "check"
    /\ interrupted
    /\ LoopExit("interrupted")

LoopData ==
    /\ pc = "check"
    /\ ~interrupted
    /\ dataReady
    /\ LoopExit("data")

LoopTimedOut ==
    /\ pc = "check"
    /\ ~interrupted
    /\ ~dataReady
    /\ timeoutDeadline >= 0
    /\ timeoutDeadline = 0 \/ getTimePreciseMicros(nanoTime) >= timeoutDeadline
    /\ LoopExit("timeout")

LoopAgain ==
    /\ pc = "check"
    /\ ~interrupted
    /\ ~dataReady
    /\ ~(/\ timeoutDeadline >= 0
         /\ timeoutDeadline = 0 \/ getTimePreciseMicros(nanoTime) >= timeoutDeadline)
    /\ pc' = "compute"
    /\ UNCHANGED <<time, timeoutDeadline, pollPeriodMillis, nanoTime, ret, wrote,
                   clockRead, timeBefore>>
    /\ UNCHANGED loopVars

\* the owner of the flag sets it, at any moment while the loop runs
SetFlag ==
    /\ pc # "exited"
    /\ ~interrupted
    /\ interrupted' = TRUE
    /\ sinceSet' = 0
    /\ UNCHANGED callVars
    /\ UNCHANGED <<waitLeft, dataReady, exitReason>>

LoopNext ==
    \/ LoopCompute
    \/ LoopSleep
    \/ LoopWakeTimeout
    \/ LoopWakeEarly
    \/ LoopInterrupted
    \/ LoopData
    \/ LoopTimedOut
    \/ LoopAgain
    \/ SetFlag

LoopSpec == LoopInit /\ [][LoopNext]_vars

----------------------------------------------------------------------------
(* Properties of the loop                                                   *)

\* C9: with a poll period p set, an interruption flag that is set is seen
\* by the loop after at most p (p*1000 microseconds) of elapsed time,
\* whatever the deadline is and whenever the flag is set.
C9_InterruptSeenWithinPoll ==
    (pollPeriodMillis > 0 /\ interrupted) => sinceSet <= pollPeriodMillis * 1000

C9_Witness ==
    /\ pc = "exited" /\ exitReason = "interrupted"
    /\ pollPeriodMillis = 1 /\ timeoutDeadline > 0
    /\ sinceSet = pollPeriodMillis * 1000

\* C10: with a deadline set, no wait ends later than the deadline: the time
\* left of the wait never exceeds the time left until the deadline.
C10_NoWaitPastDeadline ==
    (pc = "wait" /\ timeoutDeadline > 0 /\ ret = 0)
        => (waitLeft = 0 \/ Now + waitLeft <= timeoutDeadline)

====
